---- MODULE Spec2Model ----
(***************************************************************************)
(* Mesh suballocator of RavEngine's RenderEngine                           *)
(* (src/src/RenderEngine_Allocate.cpp): AllocateMesh, DeallocateMesh and   *)
(* the two buffer growth operations, called by several threads under the   *)
(* allocationLock.                                                         *)
(*                                                                         *)
(* Indices are the 0-based indices of the C++ code; element i of a vector  *)
(* is element i + 1 of the sequence that models it.  uint32_t arithmetic   *)
(* is taken modulo UintModulus.                                               *)
(***************************************************************************)
EXTENDS Integers, Sequences, FiniteSets, TLC

\* ------------------------------------------------------------------ bounds
NumThreads == 2
\* device buffers the model lets CreateBuffer hand out
MaxBuffers == 4
\* entries a Free List may hold when a DeallocateMesh call starts
MaxFreeLen == 2
\* live meshes in the initial states of SpecLive
MaxLive == 2
\* live meshes in the initial states of SpecPlaced
MaxPlaced == 2
\* smallest meshes by which a free range of SpecPlaced may exceed the request
MaxSpare == 1

\* --------------------------------------------------------------- constants
\* uint32_t wraps at its modulus and uint32_t(-1), "not found", is the modulus
\* less one.  The model checker's integers are 32-bit signed, so the 32-bit
\* word is modelled as a 30-bit one: sums of two words stay representable, and
\* every size and offset of the model is far below either modulus.
UintModulus == 1073741824
Sentinel == 1073741823
\* a byte of a freshly created (device-private) buffer: holds no uploaded data
Uninit == 0

Threads == 1..NumThreads

Range(s, c) == [start |-> s, count |-> c]
MeshRange(v, i) == [vertRange |-> v, indexRange |-> i]
NullMeshRange == MeshRange(Range(0, 0), Range(0, 0))

\* one past the last byte of a range
End(r) == r.start + r.count

\* The meshes callers upload: byte sizes of the vertex and index data; every
\* byte of mesh k's data carries the value tag (> Uninit).
Requests ==
    { [vertexBytes |-> 64, indexBytes |-> 24, tag |-> 1],
      [vertexBytes |-> 32, indexBytes |-> 12, tag |-> 2] }

\* The blocks (offset, length, in units of a smallest mesh) that callers pass
\* to DeallocateMesh: three adjacent equal blocks and one double block.
Blocks == { <<0, 1>>, <<1, 1>>, <<2, 1>>, <<0, 2>> }

\* The MeshRange values callers pass to DeallocateMesh.
Handles ==
    { MeshRange(Range(32 * b[1], 32 * b[2]), Range(12 * b[1], 12 * b[2])) : b \in Blocks }

\* What an uninitialised Range local (foundRange) may hold.
UninitRanges(unit) ==
    { Range(0, 0) } \cup { Range(unit * b[1], unit * b[2]) : b \in Blocks }

\* What the out-of-bounds read freeList[uint32_t(-1)].count may yield.
OobCounts == { 0, Sentinel }

VARIABLES
    vertexFreeList, indexFreeList,            \* allocation_freelist_t
    vertexAllocatedList, indexAllocatedList,  \* allocation_allocatedlist_t
    currentVertexSize, currentIndexSize,      \* uint32_t
    sharedVertexBuffer, sharedIndexBuffer,    \* RGLBufferPtr
    gcBuffers,                                \* deferred-destruction queue (buffer ids)
    buffersCreated,                           \* buffers handed out by CreateBuffer
    gpuLog,                                   \* device events of the latest growth
    allocationLock,                           \* 0 = free, else the holding thread
    pc,                                       \* where each thread is
    call,                                     \* the arguments and locals of its call
    result,                                   \* how its latest call ended
    handles,                                  \* MeshRanges returned and not yet deallocated
    history                                   \* what callers have asked for so far

lists == <<vertexFreeList, indexFreeList, vertexAllocatedList, indexAllocatedList>>
vertexStore == <<currentVertexSize, sharedVertexBuffer>>
indexStore == <<currentIndexSize, sharedIndexBuffer>>
device == <<gcBuffers, buffersCreated, gpuLog>>
callers == <<handles, history>>
vars == <<lists, vertexStore, indexStore, device, allocationLock, pc, call, result, callers>>

\* ------------------------------------------------------------ buffer store
NoBuffer == [id |-> 0, size |-> 0, bytes |-> [j \in {} |-> Uninit]]

\* device->CreateBuffer({newSize, ..., BufferAccess::Private}): contents undefined
CreateBuffer(id, newSize) ==
    [id |-> id, size |-> newSize, bytes |-> [j \in 0..(newSize - 1) |-> Uninit]]

\* buffer->UpdateBufferData({data, size}, offset)
UpdateBufferData(buffer, tag, size, offset) ==
    [buffer EXCEPT !.bytes =
        [j \in DOMAIN buffer.bytes |->
            IF offset <= j /\ j < offset + size THEN tag ELSE buffer.bytes[j]]]

\* ----------------------------------------------------------- list helpers
RemoveAt(list, i) ==
    [k \in 1..(Len(list) - 1) |-> IF k <= i THEN list[k] ELSE list[k + 1]]

Perms(n) ==
    { p \in [1..n -> 1..n] : \A a, b \in 1..n : p[a] = p[b] => a = b }

\* ------------------------------------------------------------ AllocateMesh
\* findPlacement: oob is what the read of freeList[bestRangeIndex] yields while
\* bestRangeIndex is still uint32_t(-1)
RECURSIVE findPlacementFrom(_, _, _, _, _)
findPlacementFrom(i, bestRangeIndex, requestedSize, freeList, oob) ==
    IF ~(i < Len(freeList))
    THEN bestRangeIndex
    ELSE LET read == IF bestRangeIndex < Len(freeList)
                     THEN freeList[bestRangeIndex + 1].count
                     ELSE oob
         IN  IF requestedSize <= read
             THEN i
             ELSE findPlacementFrom(i + 1, bestRangeIndex, requestedSize, freeList, oob)

findPlacement(requestedSize, freeList, oob) ==
    findPlacementFrom(0, Sentinel, requestedSize, freeList, oob)

\* the do-while of getAllocationLocation repeats while allocation != -1
LoopAgain(allocation) == allocation # Sentinel

\* the newSize of realloc_fn(currentSize + size)
GrownSize(currentSize, size) == (currentSize + size) % UintModulus

\* consumeRange; stale is what the reference rangeToUpdate reads after the
\* erase when it no longer designates an element
consumeRange(allocation, allocatedSize, freeList, allocatedList, stale) ==
    IF ~(allocation < Len(freeList))
    THEN [threw |-> TRUE, freeList |-> freeList, allocatedList |-> allocatedList,
          placement |-> Range(0, 0)]
    ELSE LET rangeToUpdate == freeList[allocation + 1]
             exact == rangeToUpdate.count = allocatedSize
             erased == RemoveAt(freeList, allocation + 1)
             shrunk == [rangeToUpdate EXCEPT !.start = (@ + allocatedSize) % UintModulus]
             newFree == IF exact THEN erased
                        ELSE [freeList EXCEPT ![allocation + 1] = shrunk]
             seen == IF ~exact THEN shrunk
                     ELSE IF allocation < Len(erased) THEN erased[allocation + 1]
                     ELSE stale
         IN  [threw |-> FALSE, freeList |-> newFree,
              allocatedList |-> Append(allocatedList, seen), placement |-> seen]

\* ---------------------------------------------------------- DeallocateMesh
\* the search loop of deallocateData, entered with foundRangeIndex
RECURSIVE searchAllocated(_, _, _)
searchAllocated(foundRangeIndex, range, allocatedList) ==
    IF ~(foundRangeIndex < Len(allocatedList))
    THEN [found |-> FALSE, index |-> foundRangeIndex]
    ELSE LET nextRange == allocatedList[foundRangeIndex + 1]
         IN  IF nextRange.start >= range.start /\ nextRange.count >= range.count
             THEN [found |-> TRUE, index |-> foundRangeIndex]
             ELSE searchAllocated((foundRangeIndex + 1) % UintModulus, range, allocatedList)

\* one pass of the merge loop over a free range r for the found range f
borderBefore(r, f) == (r.start + r.count) % UintModulus = f.start
borderAfter(r, f) == (f.start + f.count) % UintModulus = r.start

mergeEntry(r, f) ==
    LET r1 == IF borderBefore(r, f)
              THEN [r EXCEPT !.count = (@ + f.count) % UintModulus]
              ELSE r
    IN  IF borderAfter(r1, f)
        THEN [r1 EXCEPT !.start = (@ - f.count) % UintModulus]
        ELSE r1

\* deallocateData; uninit is the value of foundRange when the search assigns none
deallocateData(range, allocatedList, freeList, uninit) ==
    LET s == searchAllocated(Sentinel, range, allocatedList)
        foundRange == IF s.found THEN allocatedList[s.index + 1] ELSE uninit
        newAllocated == IF s.found THEN RemoveAt(allocatedList, s.index + 1)
                        ELSE allocatedList
        overlapFound == \E k \in 1..Len(freeList) :
                            \/ borderBefore(freeList[k], foundRange)
                            \/ borderAfter(freeList[k], foundRange)
        merged == [k \in 1..Len(freeList) |-> mergeEntry(freeList[k], foundRange)]
    IN  [found |-> s.found,
         allocatedList |-> newAllocated,
         freeList |-> IF overlapFound THEN merged ELSE Append(merged, range)]

\* ------------------------------------------------------------------ growth
\* the Allocated List after the "fill holes and copy data" loop, sortList
\* being the entries in the order order[1], order[2], ...
RECURSIVE packedBefore(_, _, _)
packedBefore(allocatedList, order, k) ==
    IF k = 0 THEN 0
    ELSE (packedBefore(allocatedList, order, k - 1) + allocatedList[order[k]].count) % UintModulus

fillHoles(allocatedList, order) ==
    [e \in 1..Len(allocatedList) |->
        LET k == CHOOSE j \in 1..Len(allocatedList) : order[j] = e
        IN  [allocatedList[e] EXCEPT !.start = packedBefore(allocatedList, order, k - 1)]]

\* std::sort with the comparator b->start - a->start, which is no strict weak
\* ordering: the order it leaves is unspecified
SortOutcomes(allocatedList) == Perms(Len(allocatedList))

\* the copy commands the loop records in the command buffer
RecordedCopies(allocatedList, order) == << >>

\* ReallocateVertexAllocationToSize up to commandbuffer->Commit({fence}); the
\* device works on the committed command buffer from then on
ReallocateVertexAllocationToSize(newSize) ==
    /\ gcBuffers' = Append(gcBuffers, sharedVertexBuffer.id)
    /\ buffersCreated' = buffersCreated + 1
    /\ sharedVertexBuffer' = CreateBuffer(buffersCreated + 1, newSize)
    /\ currentVertexSize' = newSize
    /\ \E order \in SortOutcomes(vertexAllocatedList) :
          /\ vertexAllocatedList' = fillHoles(vertexAllocatedList, order)
          /\ gpuLog' = <<"enqueue", "CreateBuffer", "CreateCommandBuffer", "CreateFence", "Begin">>
                       \o RecordedCopies(vertexAllocatedList, order)
                       \o <<"End", "Commit">>
    /\ UNCHANGED <<vertexFreeList, indexFreeList, indexAllocatedList, indexStore>>

ReallocateIndexAllocationToSize(newSize) ==
    /\ buffersCreated' = buffersCreated + 1
    /\ sharedIndexBuffer' = CreateBuffer(buffersCreated + 1, newSize)
    /\ currentIndexSize' = newSize
    /\ gpuLog' = <<"CreateBuffer">>
    /\ UNCHANGED <<lists, vertexStore, gcBuffers>>

\* ------------------------------------------------------------------ states
NoCall ==
    [op |-> "none", vertexBytes |-> 0, indexBytes |-> 0, tag |-> 0,
     range |-> NullMeshRange, vertexAllocation |-> Sentinel, indexAllocation |-> Sentinel,
     oldBuffer |-> NoBuffer, oldstart |-> << >>]

NoResult == [outcome |-> "none", value |-> NullMeshRange]

\* requestedVertex/requestedIndex: bytes asked for by the AllocateMesh calls that
\* have ended; deallocated: whether DeallocateMesh was ever called; foreign:
\* whether it was ever called with a MeshRange that AllocateMesh had not
\* returned (or that was deallocated before); freed: the handle of the latest
\* DeallocateMesh call if AllocateMesh had returned it and no AllocateMesh call
\* has ended since
NoHistory ==
    [requestedVertex |-> 0, requestedIndex |-> 0, deallocated |-> FALSE,
     foreign |-> FALSE, freed |-> NullMeshRange]

Halted == \E t \in Threads : pc[t] = "crashed"

InCall(op) == Cardinality({ t \in Threads : pc[t] # "idle" /\ call[t].op = op })

Init ==
    /\ vertexFreeList = << >> /\ indexFreeList = << >>
    /\ vertexAllocatedList = << >> /\ indexAllocatedList = << >>
    /\ currentVertexSize = 0 /\ currentIndexSize = 0
    /\ sharedVertexBuffer = NoBuffer /\ sharedIndexBuffer = NoBuffer
    /\ gcBuffers = << >> /\ buffersCreated = 0 /\ gpuLog = << >>
    /\ allocationLock = 0
    /\ pc = [t \in Threads |-> "idle"]
    /\ call = [t \in Threads |-> NoCall]
    /\ result = [t \in Threads |-> NoResult]
    /\ handles = {}
    /\ history = NoHistory

\* ----------------------------------------------------------------- actions
\* a thread enters AllocateMesh(vertices, indices) and reaches the lock_guard
CallAllocateMesh(t, req) ==
    /\ ~Halted /\ pc[t] = "idle"
    /\ buffersCreated + 2 * InCall("AllocateMesh") + 2 <= MaxBuffers
    /\ pc' = [pc EXCEPT ![t] = "lock"]
    /\ call' = [call EXCEPT ![t] =
                  [NoCall EXCEPT !.op = "AllocateMesh", !.vertexBytes = req.vertexBytes,
                                 !.indexBytes = req.indexBytes, !.tag = req.tag]]
    /\ result' = [result EXCEPT ![t] = NoResult]
    /\ UNCHANGED <<lists, vertexStore, indexStore, device, allocationLock, callers>>

\* a thread enters DeallocateMesh(range) and reaches the lock_guard
CallDeallocateMesh(t, range) ==
    /\ ~Halted /\ pc[t] = "idle"
    /\ Len(vertexFreeList) + InCall("DeallocateMesh") < MaxFreeLen
    /\ Len(indexFreeList) + InCall("DeallocateMesh") < MaxFreeLen
    /\ pc' = [pc EXCEPT ![t] = "lock"]
    /\ call' = [call EXCEPT ![t] = [NoCall EXCEPT !.op = "DeallocateMesh", !.range = range]]
    /\ result' = [result EXCEPT ![t] = NoResult]
    /\ handles' = handles \ {range}
    /\ history' = [history EXCEPT !.deallocated = TRUE,
                                  !.foreign = @ \/ range \notin handles,
                                  !.freed = IF range \in handles THEN range ELSE @]
    /\ UNCHANGED <<lists, vertexStore, indexStore, device, allocationLock>>

\* a lock_guard that does not wait for the mutex
CanLockUnguarded(t) == TRUE

\* std::lock_guard mtx{allocationLock}
CanLock(t) == allocationLock = 0

Lock(t) ==
    /\ ~Halted /\ pc[t] = "lock"
    /\ CanLock(t)
    /\ allocationLock' = t
    /\ pc' = [pc EXCEPT ![t] =
                IF call[t].op = "AllocateMesh" THEN "vertexLocation" ELSE "deallocateVertex"]
    /\ UNCHANGED <<lists, vertexStore, indexStore, device, call, result, callers>>

\* one pass of the do-while of getAllocationLocation for the vertex buffer; a
\* pass that grows the buffer goes on to fence->Wait().  oldBuffer and oldstart
\* are the locals of ReallocateVertexAllocationToSize (oldstart[e] for entry e)
VertexLocation(t) ==
    /\ ~Halted /\ pc[t] = "vertexLocation"
    /\ \E oob \in OobCounts :
          LET allocation == findPlacement(call[t].vertexBytes, vertexFreeList, oob)
          IN  IF allocation = Sentinel
              THEN /\ ReallocateVertexAllocationToSize(
                          GrownSize(currentVertexSize, call[t].vertexBytes))
                   /\ call' = [call EXCEPT
                                 ![t].vertexAllocation = allocation,
                                 ![t].oldBuffer = sharedVertexBuffer,
                                 ![t].oldstart = [e \in 1..Len(vertexAllocatedList) |->
                                                    vertexAllocatedList[e].start]]
                   /\ pc' = [pc EXCEPT ![t] = "fenceWait"]
              ELSE /\ call' = [call EXCEPT ![t].vertexAllocation = allocation]
                   /\ pc' = [pc EXCEPT ![t] =
                               IF LoopAgain(allocation) THEN "vertexLocation"
                               ELSE "indexLocation"]
                   /\ UNCHANGED <<lists, vertexStore, indexStore, device>>
    /\ UNCHANGED <<allocationLock, result, callers>>

\* the device finishes the committed command buffer, which holds no command
\* (the copy of line 161 is a comment), and signals the fence
DeviceSignal ==
    /\ ~Halted
    /\ gpuLog # << >> /\ gpuLog[Len(gpuLog)] = "Commit"
    /\ gpuLog' = Append(gpuLog, "Signal")
    /\ UNCHANGED <<lists, vertexStore, indexStore, gcBuffers, buffersCreated,
                   allocationLock, pc, call, result, callers>>

\* a fence->Wait() that returns at once
FenceSignalledOrNot(t) == TRUE

\* fence->Wait() returns once the device has signalled the fence
FenceSignalled(t) == gpuLog # << >> /\ gpuLog[Len(gpuLog)] = "Signal"

\* fence->Wait() returns and with it ReallocateVertexAllocationToSize; the
\* do-while of getAllocationLocation ends (allocation is uint32_t(-1))
FenceWait(t) ==
    /\ ~Halted /\ pc[t] = "fenceWait"
    /\ FenceSignalled(t)
    /\ gpuLog' = Append(gpuLog, "Wait")
    /\ pc' = [pc EXCEPT ![t] = "indexLocation"]
    /\ call' = [call EXCEPT ![t].oldBuffer = NoBuffer, ![t].oldstart = << >>]
    /\ UNCHANGED <<lists, vertexStore, indexStore, gcBuffers, buffersCreated,
                   allocationLock, result, callers>>

\* one pass of the do-while of getAllocationLocation for the index buffer
IndexLocation(t) ==
    /\ ~Halted /\ pc[t] = "indexLocation"
    /\ \E oob \in OobCounts :
          LET allocation == findPlacement(call[t].indexBytes, indexFreeList, oob)
          IN  /\ call' = [call EXCEPT ![t].indexAllocation = allocation]
              /\ IF allocation = Sentinel
                 THEN ReallocateIndexAllocationToSize(
                          GrownSize(currentIndexSize, call[t].indexBytes))
                 ELSE UNCHANGED <<lists, vertexStore, indexStore, device>>
              /\ pc' = [pc EXCEPT ![t] =
                          IF LoopAgain(allocation) THEN "indexLocation" ELSE "consumeRange"]
    /\ UNCHANGED <<allocationLock, result, callers>>

\* the read of freeList[uint32_t(-1)] in findPlacement faults: the process dies
PlacementFault(t) ==
    /\ ~Halted
    /\ \/ pc[t] = "vertexLocation" /\ vertexFreeList # << >>
       \/ pc[t] = "indexLocation" /\ indexFreeList # << >>
    /\ pc' = [pc EXCEPT ![t] = "crashed"]
    /\ UNCHANGED <<lists, vertexStore, indexStore, device, allocationLock, call, result, callers>>

\* the values a dangling rangeToUpdate may read: what the erased element held
\* (its storage is left as it was) or zeroes; freeList.at throws before any
\* such read when the index is out of range
StaleReads(allocation, freeList) ==
    IF allocation < Len(freeList)
    THEN { freeList[allocation + 1], Range(0, 0) }
    ELSE { Range(0, 0) }

\* consumeRange for both buffers, the two uploads and the return; freeList.at
\* throws std::out_of_range, which leaves the call (and releases the lock)
ConsumeAndUpload(t) ==
    /\ ~Halted /\ pc[t] = "consumeRange"
    /\ \E staleV \in StaleReads(call[t].vertexAllocation, vertexFreeList),
          staleI \in StaleReads(call[t].indexAllocation, indexFreeList) :
          LET v == consumeRange(call[t].vertexAllocation, call[t].vertexBytes,
                                vertexFreeList, vertexAllocatedList, staleV)
              i == consumeRange(call[t].indexAllocation, call[t].indexBytes,
                                indexFreeList, indexAllocatedList, staleI)
              returned == MeshRange(v.placement, i.placement)
          IN  IF v.threw
              THEN /\ result' = [result EXCEPT ![t] =
                                   [outcome |-> "out_of_range", value |-> NullMeshRange]]
                   /\ UNCHANGED <<lists, vertexStore, indexStore, handles>>
              ELSE IF i.threw
              THEN /\ vertexFreeList' = v.freeList
                   /\ vertexAllocatedList' = v.allocatedList
                   /\ result' = [result EXCEPT ![t] =
                                   [outcome |-> "out_of_range", value |-> NullMeshRange]]
                   /\ UNCHANGED <<indexFreeList, indexAllocatedList, vertexStore,
                                  indexStore, handles>>
              ELSE /\ vertexFreeList' = v.freeList
                   /\ vertexAllocatedList' = v.allocatedList
                   /\ indexFreeList' = i.freeList
                   /\ indexAllocatedList' = i.allocatedList
                   /\ sharedVertexBuffer' = UpdateBufferData(sharedVertexBuffer, call[t].tag,
                                                call[t].vertexBytes, v.placement.start)
                   /\ sharedIndexBuffer' = UpdateBufferData(sharedIndexBuffer, call[t].tag,
                                                call[t].indexBytes, i.placement.start)
                   /\ result' = [result EXCEPT ![t] =
                                   [outcome |-> "returned", value |-> returned]]
                   /\ handles' = handles \cup {returned}
                   /\ UNCHANGED <<currentVertexSize, currentIndexSize>>
    /\ allocationLock' = 0
    /\ pc' = [pc EXCEPT ![t] = "idle"]
    /\ call' = [call EXCEPT ![t] = NoCall]
    /\ history' = [history EXCEPT !.requestedVertex = @ + call[t].vertexBytes,
                                  !.requestedIndex = @ + call[t].indexBytes,
                                  !.freed = NullMeshRange]
    /\ UNCHANGED device

\* deallocateData(range.vertRange, vertexAllocatedList, vertexFreeList)
DeallocateVertex(t) ==
    /\ ~Halted /\ pc[t] = "deallocateVertex"
    /\ \E uninit \in UninitRanges(32) :
          LET d == deallocateData(call[t].range.vertRange, vertexAllocatedList,
                                  vertexFreeList, uninit)
          IN  /\ vertexAllocatedList' = d.allocatedList
              /\ vertexFreeList' = d.freeList
    /\ pc' = [pc EXCEPT ![t] = "deallocateIndex"]
    /\ UNCHANGED <<indexFreeList, indexAllocatedList, vertexStore, indexStore, device,
                   allocationLock, call, result, callers>>

\* deallocateData(range.indexRange, indexAllocatedList, indexFreeList) and the return
DeallocateIndex(t) ==
    /\ ~Halted /\ pc[t] = "deallocateIndex"
    /\ \E uninit \in UninitRanges(12) :
          LET d == deallocateData(call[t].range.indexRange, indexAllocatedList,
                                  indexFreeList, uninit)
          IN  /\ indexAllocatedList' = d.allocatedList
              /\ indexFreeList' = d.freeList
    /\ result' = [result EXCEPT ![t] = [outcome |-> "done", value |-> NullMeshRange]]
    /\ allocationLock' = 0
    /\ pc' = [pc EXCEPT ![t] = "idle"]
    /\ call' = [call EXCEPT ![t] = NoCall]
    /\ UNCHANGED <<vertexFreeList, vertexAllocatedList, vertexStore, indexStore, device,
                   callers>>

Next ==
    \/ DeviceSignal
    \/ \E t \in Threads :
        \/ \E req \in Requests : CallAllocateMesh(t, req)
        \/ \E range \in Handles \cup handles : CallDeallocateMesh(t, range)
        \/ Lock(t)
        \/ VertexLocation(t)
        \/ FenceWait(t)
        \/ IndexLocation(t)
        \/ PlacementFault(t)
        \/ ConsumeAndUpload(t)
        \/ DeallocateVertex(t)
        \/ DeallocateIndex(t)

Spec == Init /\ [][Next]_vars

\* ---------------------------------------------------- the operations on a
\* populated allocator: the lists, capacities and buffers hold the meshes of
\* q, packed from offset 0 in the order of q, each with its data uploaded
RECURSIVE packFrom(_, _)
packFrom(sizes, offset) ==
    IF sizes = << >> THEN << >>
    ELSE <<Range(offset, Head(sizes))>> \o packFrom(Tail(sizes), offset + Head(sizes))

RECURSIVE sumOf(_)
sumOf(sizes) == IF sizes = << >> THEN 0 ELSE Head(sizes) + sumOf(Tail(sizes))

liveBuffer(id, ranges, tags) ==
    [id |-> id, size |-> sumOf([k \in 1..Len(ranges) |-> ranges[k].count]),
     bytes |-> [j \in 0..(sumOf([k \in 1..Len(ranges) |-> ranges[k].count]) - 1) |->
                  tags[CHOOSE k \in 1..Len(ranges) :
                          ranges[k].start <= j /\ j < ranges[k].start + ranges[k].count]]]

InitLive ==
    \E n \in 1..MaxLive : \E q \in { f \in [1..n -> Requests] :
                                        \A a, b \in 1..n : f[a] = f[b] => a = b } :
        LET vertexRanges == packFrom([k \in 1..n |-> q[k].vertexBytes], 0)
            indexRanges == packFrom([k \in 1..n |-> q[k].indexBytes], 0)
            tags == [k \in 1..n |-> q[k].tag]
        IN  /\ vertexFreeList = << >> /\ indexFreeList = << >>
            /\ vertexAllocatedList = vertexRanges /\ indexAllocatedList = indexRanges
            /\ sharedVertexBuffer = liveBuffer(1, vertexRanges, tags)
            /\ sharedIndexBuffer = liveBuffer(2, indexRanges, tags)
            /\ currentVertexSize = sharedVertexBuffer.size
            /\ currentIndexSize = sharedIndexBuffer.size
            /\ gcBuffers = << >> /\ buffersCreated = 2 /\ gpuLog = << >>
            /\ allocationLock = 0
            /\ pc = [t \in Threads |-> "idle"]
            /\ call = [t \in Threads |-> NoCall]
            /\ result = [t \in Threads |-> NoResult]
            /\ handles = { MeshRange(vertexRanges[k], indexRanges[k]) : k \in 1..n }
            /\ history = [NoHistory EXCEPT !.requestedVertex = currentVertexSize,
                                           !.requestedIndex = currentIndexSize]

SpecLive == InitLive /\ [][Next]_vars

\* ------------------------------------------------- consumeRange and the
\* uploads applied to a placement: a thread is at line 53 of AllocateMesh,
\* holding the lock, with the indices of free ranges that can take its request
\* ("now we have the location to place the vertex and index data"); the free
\* range of each buffer follows the live meshes of q and exceeds the request
\* by spare smallest meshes
placedBuffer(id, ranges, tags, capacity) ==
    [id |-> id, size |-> capacity,
     bytes |-> [j \in 0..(capacity - 1) |->
                  IF \E k \in 1..Len(ranges) : ranges[k].start <= j /\ j < End(ranges[k])
                  THEN tags[CHOOSE k \in 1..Len(ranges) :
                               ranges[k].start <= j /\ j < End(ranges[k])]
                  ELSE Uninit]]

InitPlaced ==
    \E n \in 0..MaxPlaced : \E q \in { f \in [1..n -> Requests] :
                                          \A a, b \in 1..n : f[a] = f[b] => a = b } :
    \E req \in Requests : \E spare \in 0..MaxSpare : \E caller \in Threads :
        LET vertexRanges == packFrom([k \in 1..n |-> q[k].vertexBytes], 0)
            indexRanges == packFrom([k \in 1..n |-> q[k].indexBytes], 0)
            tags == [k \in 1..n |-> q[k].tag]
            vertexEnd == sumOf([k \in 1..n |-> q[k].vertexBytes])
            indexEnd == sumOf([k \in 1..n |-> q[k].indexBytes])
            vertexFree == Range(vertexEnd, req.vertexBytes + 32 * spare)
            indexFree == Range(indexEnd, req.indexBytes + 12 * spare)
        IN  /\ vertexFreeList = <<vertexFree>> /\ indexFreeList = <<indexFree>>
            /\ vertexAllocatedList = vertexRanges /\ indexAllocatedList = indexRanges
            /\ currentVertexSize = End(vertexFree) /\ currentIndexSize = End(indexFree)
            /\ sharedVertexBuffer = placedBuffer(1, vertexRanges, tags, End(vertexFree))
            /\ sharedIndexBuffer = placedBuffer(2, indexRanges, tags, End(indexFree))
            /\ gcBuffers = << >> /\ buffersCreated = 2 /\ gpuLog = << >>
            /\ allocationLock = caller
            /\ pc = [t \in Threads |-> IF t = caller THEN "consumeRange" ELSE "idle"]
            /\ call = [t \in Threads |->
                         IF t = caller
                         THEN [NoCall EXCEPT !.op = "AllocateMesh",
                                             !.vertexBytes = req.vertexBytes,
                                             !.indexBytes = req.indexBytes,
                                             !.tag = req.tag,
                                             !.vertexAllocation = 0,
                                             !.indexAllocation = 0]
                         ELSE NoCall]
            /\ result = [t \in Threads |-> NoResult]
            /\ handles = { MeshRange(vertexRanges[k], indexRanges[k]) : k \in 1..n }
            /\ history = [NoHistory EXCEPT !.requestedVertex = vertexEnd,
                                           !.requestedIndex = indexEnd]

NextPlaced == \E t \in Threads : ConsumeAndUpload(t)

SpecPlaced == InitPlaced /\ [][NextPlaced]_vars

\* ----------------------------------------------------------- scheduling
\* Every thread inside a call keeps running and the mutex starves no waiter;
\* the device finishes committed work.  A pass of a placement loop is certain
\* to end the loop only over an empty Free List (findPlacement then returns
\* uint32_t(-1) without reading anything); over a non-empty one its outcome
\* hangs on the out-of-bounds read, and no outcome is owed
Fairness ==
    /\ WF_vars(DeviceSignal)
    /\ \A t \in Threads :
          /\ SF_vars(Lock(t))
          /\ WF_vars(VertexLocation(t) /\ vertexFreeList = << >>)
          /\ WF_vars(FenceWait(t))
          /\ WF_vars(IndexLocation(t) /\ indexFreeList = << >>)
          /\ WF_vars(ConsumeAndUpload(t))
          /\ WF_vars(DeallocateVertex(t))
          /\ WF_vars(DeallocateIndex(t))

SpecLiveFair == SpecLive /\ Fairness

\* ================================================================== claims
Elements(list) == { list[k] : k \in 1..Len(list) }

\* thread t is inside a call, past its lock acquisition
PastLock(t) ==
    pc[t] \in {"vertexLocation", "fenceWait", "indexLocation", "consumeRange",
               "deallocateVertex", "deallocateIndex"}

\* the step in which thread t's AllocateMesh call ends
AllocateEnds(t) == pc[t] = "consumeRange" /\ pc'[t] = "idle"

ByteAt(buffer, j) == IF j \in DOMAIN buffer.bytes THEN buffer.bytes[j] ELSE Uninit

Holds(buffer, range, tag) ==
    \A j \in range.start..(End(range) - 1) : ByteAt(buffer, j) = tag

\* the ranges of the two lists exactly partition [0, capacity)
Tiles(freeList, allocatedList, capacity) ==
    LET all == freeList \o allocatedList
    IN  /\ \A k \in 1..Len(all) : End(all[k]) <= capacity
        /\ \A x \in 0..(capacity - 1) :
              Cardinality({ k \in 1..Len(all) : all[k].start <= x /\ x < End(all[k]) }) = 1

\* C1: Tiling invariant.  Whenever no call is in progress (and DeallocateMesh
\* was only ever given handles that AllocateMesh returned), for the vertex and
\* for the index buffer the ranges of the Free List and of the Allocated List
\* exactly partition [0, current capacity): every offset below the capacity
\* lies in exactly one range and no range extends past the capacity.
C1_TilingInvariant ==
    allocationLock = 0 /\ ~history.foreign =>
        /\ Tiles(vertexFreeList, vertexAllocatedList, currentVertexSize)
        /\ Tiles(indexFreeList, indexAllocatedList, currentIndexSize)

\* C2: Packing without deallocation.  As long as DeallocateMesh has not been
\* called, every AllocateMesh call ends by returning, for each buffer, the
\* range whose count is the requested size and whose start is the sum of the
\* sizes requested before it; from empty buffers AllocateMesh(64, 24) returns
\* {{0,64},{0,24}} and a following AllocateMesh(32, 12) returns {{64,32},{24,12}}.
C2_ConcretePacking ==
    [][\A t \in Threads :
          AllocateEnds(t) /\ ~history.deallocated =>
              result'[t] =
                  [outcome |-> "returned",
                   value |-> MeshRange(
                       Range(history.requestedVertex, call[t].vertexBytes),
                       Range(history.requestedIndex, call[t].indexBytes))]]_vars

\* the Free List after range r was returned to freeList with coalescing: one
\* entry spans r and the free ranges that bordered it, which are gone
CoalescedInto(freeList, r, newFreeList) ==
    LET before == { k \in 1..Len(freeList) : End(freeList[k]) = r.start }
        after == { k \in 1..Len(freeList) : End(r) = freeList[k].start }
        lo == IF before = {} THEN r.start ELSE freeList[CHOOSE k \in before : TRUE].start
        hi == IF after = {} THEN End(r) ELSE End(freeList[CHOOSE k \in after : TRUE])
    IN  /\ Range(lo, hi - lo) \in Elements(newFreeList)
        /\ Len(newFreeList) = Len(freeList) + 1 - Cardinality(before) - Cardinality(after)

\* range r shares no byte with a range of freeList
NotFree(r, freeList) ==
    \A k \in 1..Len(freeList) : End(freeList[k]) <= r.start \/ End(r) <= freeList[k].start

\* C3: Coalescing on free.  When DeallocateMesh returns a range (none of whose
\* bytes is free already) to a Free List, the range is merged with every free
\* range adjacent to it: afterwards one free entry spans the range and its free
\* neighbours (all three when it had a neighbour on both sides) and the
\* neighbours' own entries are gone.
C3_Coalescing ==
    [][\A t \in Threads :
          /\ ( /\ pc[t] = "deallocateVertex" /\ pc'[t] # pc[t]
               /\ NotFree(call[t].range.vertRange, vertexFreeList) ) =>
                  CoalescedInto(vertexFreeList, call[t].range.vertRange, vertexFreeList')
          /\ ( /\ pc[t] = "deallocateIndex" /\ pc'[t] # pc[t]
               /\ NotFree(call[t].range.indexRange, indexFreeList) ) =>
                  CoalescedInto(indexFreeList, call[t].range.indexRange, indexFreeList')]_vars

Minimal(freeList) ==
    \A j, k \in 1..Len(freeList) : j # k => End(freeList[j]) # freeList[k].start

\* C4: Free-list minimality.  In every reachable state no Free List holds two
\* ranges r and s with r.start + r.count = s.start.
C4_FreeListMinimality == Minimal(vertexFreeList) /\ Minimal(indexFreeList)

\* C5: Deallocate misuse is an error.  A DeallocateMesh call whose vertex or
\* index half equals no entry of the corresponding Allocated List does not go
\* on normally past that half (it ends in an error) and does not change that
\* buffer's Free List.
C5_DeallocateMisuse ==
    [][\A t \in Threads :
          /\ ( /\ pc[t] = "deallocateVertex" /\ pc'[t] # pc[t]
               /\ call[t].range.vertRange \notin Elements(vertexAllocatedList) ) =>
                  /\ pc'[t] # "deallocateIndex"
                  /\ vertexFreeList' = vertexFreeList
          /\ ( /\ pc[t] = "deallocateIndex" /\ pc'[t] # pc[t]
               /\ call[t].range.indexRange \notin Elements(indexAllocatedList) ) =>
                  /\ result'[t].outcome # "done"
                  /\ indexFreeList' = indexFreeList]_vars

Fits(freeList, size) == \E k \in 1..Len(freeList) : freeList[k].count >= size

\* thread t is in an AllocateMesh call that asks again for the sizes of the
\* handle deallocated just before, and both Free Lists hold a range that fits
ReuseCase(t) ==
    /\ call[t].op = "AllocateMesh" /\ PastLock(t)
    /\ history.freed # NullMeshRange
    /\ history.freed.vertRange.count = call[t].vertexBytes
    /\ history.freed.indexRange.count = call[t].indexBytes
    /\ Fits(vertexFreeList, call[t].vertexBytes)
    /\ Fits(indexFreeList, call[t].indexBytes)

KeptBytes(oldList, oldBuffer, newList, newBuffer) ==
    /\ Len(newList) = Len(oldList)
    /\ \A k \in 1..Len(oldList) :
          /\ newList[k].count = oldList[k].count
          /\ \A j \in 0..(oldList[k].count - 1) :
                ByteAt(newBuffer, newList[k].start + j) = ByteAt(oldBuffer, oldList[k].start + j)

CopiesIn(log) == Cardinality({ k \in 1..Len(log) : log[k] = "Copy" })

\* the Allocated List as it was before the growth that thread t is in
OldList(t, allocatedList) ==
    [e \in 1..Len(call[t].oldstart) |->
        Range(call[t].oldstart[e], allocatedList[e].count)]

C8_RoundTrip ==
    [][\A t \in Threads :
          AllocateEnds(t) =>
              /\ result'[t].outcome = "returned"
              /\ result'[t].value.vertRange.count = call[t].vertexBytes
              /\ result'[t].value.indexRange.count = call[t].indexBytes
              /\ Holds(sharedVertexBuffer', result'[t].value.vertRange, call[t].tag)
              /\ Holds(sharedIndexBuffer', result'[t].value.indexRange, call[t].tag)
              /\ KeptBytes(vertexAllocatedList, sharedVertexBuffer,
                           SubSeq(vertexAllocatedList', 1, Len(vertexAllocatedList)),
                           sharedVertexBuffer')
              /\ KeptBytes(indexAllocatedList, sharedIndexBuffer,
                           SubSeq(indexAllocatedList', 1, Len(indexAllocatedList)),
                           sharedIndexBuffer')]_vars

C10_Serialisation ==
    /\ Cardinality({ t \in Threads : PastLock(t) }) <= 1
    /\ \A t \in Threads : PastLock(t) => allocationLock = t

\* one call is in the middle of its work while another waits for the lock
C10_Witness ==
    \E t, u \in Threads :
        /\ t # u
        /\ pc[t] \in {"indexLocation", "deallocateIndex"}
        /\ pc[u] = "lock"

\* every range of the list is non-empty and no two of its ranges share a byte
WellFormed(list) ==
    /\ \A k \in 1..Len(list) : list[k].count > 0
    /\ \A j, k \in 1..Len(list) :
          j # k => End(list[j]) <= list[k].start \/ End(list[k]) <= list[j].start

\* C11: Range well-formedness.  In every reachable state every range of each
\* Free List and of each Allocated List has count > 0, and no two ranges of the
\* same list overlap.
C11_RangeWellFormedness ==
    /\ WellFormed(vertexFreeList) /\ WellFormed(indexFreeList)
    /\ WellFormed(vertexAllocatedList) /\ WellFormed(indexAllocatedList)

\* a step of thread t inside its call
StepOf(t, op) == call[t].op = op /\ pc'[t] # pc[t] /\ pc[t] # "idle"

\* the capacities never decrease, change only in a step that creates the
\* buffer anew, and no step of a DeallocateMesh call changes them
CapacitiesMonotone ==
    /\ currentVertexSize' >= currentVertexSize
    /\ currentIndexSize' >= currentIndexSize
    /\ currentVertexSize' # currentVertexSize =>
          sharedVertexBuffer'.id = buffersCreated' /\ buffersCreated' = buffersCreated + 1
    /\ currentIndexSize' # currentIndexSize =>
          sharedIndexBuffer'.id = buffersCreated' /\ buffersCreated' = buffersCreated + 1
    /\ \A t \in Threads :
          StepOf(t, "DeallocateMesh") =>
              currentVertexSize' = currentVertexSize /\ currentIndexSize' = currentIndexSize

C12_GrowthOnly == [][CapacitiesMonotone]_vars

\* index allocation designates a range of freeList that can take size bytes
Designates(allocation, freeList, size) ==
    allocation < Len(freeList) /\ freeList[allocation + 1].count >= size

\* C13: Allocate terminates with a placement.  Once the placement loop of a
\* buffer has ended, the index it chose designates an existing range of that
\* buffer's Free List whose count is at least the requested size; it is never
\* the "not found" sentinel when consumeRange is about to use it.
C13_PlacementOnExit ==
    \A t \in Threads :
        /\ pc[t] \in {"indexLocation", "consumeRange"} =>
              Designates(call[t].vertexAllocation, vertexFreeList, call[t].vertexBytes)
        /\ pc[t] = "consumeRange" =>
              Designates(call[t].indexAllocation, indexFreeList, call[t].indexBytes)

\* what consuming n bytes of the free range at index allocation must give: the
\* placement {s, n} appended to the Allocated List, the free range removed
\* when it is used up and else shrunk to {s + n, c - n}
Consumed(allocation, n, freeList, allocatedList, newFreeList, newAllocatedList, placement) ==
    LET r == freeList[allocation + 1]
    IN  /\ placement = Range(r.start, n)
        /\ newAllocatedList = Append(allocatedList, Range(r.start, n))
        /\ newFreeList = IF r.count = n THEN RemoveAt(freeList, allocation + 1)
                         ELSE [freeList EXCEPT ![allocation + 1] =
                                  Range(r.start + n, r.count - n)]

\* thread t is about to consume free ranges that can take its request
PlacementCase(t) ==
    /\ pc[t] = "consumeRange"
    /\ Designates(call[t].vertexAllocation, vertexFreeList, call[t].vertexBytes)
    /\ Designates(call[t].indexAllocation, indexFreeList, call[t].indexBytes)

RECURSIVE Bytes(_)
Bytes(list) == IF list = << >> THEN 0 ELSE Head(list).count + Bytes(Tail(list))

\* list without its entries equal to r, the others in their order
Without(list, r) ==
    LET Keep(e) == e # r IN SelectSeq(list, Keep)

\* what deallocating the live range r must do to its buffer's lists
Released(r, allocatedList, freeList, newAllocatedList, newFreeList) ==
    /\ newAllocatedList = Without(allocatedList, r)
    /\ Len(newAllocatedList) = Len(allocatedList) - 1
    /\ Bytes(newFreeList) = Bytes(freeList) + r.count

PackedAhead(list, oldstart, e) ==
    Bytes([k \in 1..Len(list) |->
              IF oldstart[k] > oldstart[e] THEN list[k] ELSE Range(0, 0)])

\* what a vertex growth to newSize must leave, oldstart holding the starts the
\* entries had before it
Compacted(oldstart, allocatedList, freeList, newSize) ==
    /\ Len(allocatedList) = Len(oldstart)
    /\ \A e \in 1..Len(allocatedList) :
          allocatedList[e].start = PackedAhead(allocatedList, oldstart, e)
    /\ freeList = <<Range(Bytes(allocatedList), newSize - Bytes(allocatedList))>>

\* C16: Compaction result of vertex growth.  When ReallocateVertexAllocationToSize
\* returns, every Allocated List entry has its count of before, the entries
\* taken in descending order of their old start have as new starts the running
\* sum of the counts from 0 (so they tile [0, packedEnd) without overlap), and
\* the vertex Free List is exactly the one range [packedEnd, newSize).
C16_CompactionResult ==
    [][\A t \in Threads :
          pc[t] = "fenceWait" /\ pc'[t] # pc[t] =>
              /\ \A e \in 1..Len(call[t].oldstart) :
                    vertexAllocatedList'[e].count = OldList(t, vertexAllocatedList)[e].count
              /\ Compacted(call[t].oldstart, vertexAllocatedList', vertexFreeList',
                           currentVertexSize')]_vars

\* thread t makes a pass of the placement loop it is in at "at" (and does not
\* die in it)
LoopPass(t, at) ==
    /\ pc[t] = at /\ pc'[t] # "crashed"
    /\ pc'[t] # pc[t] \/ call'[t] # call[t]

\* a pass grows the buffer exactly when no free range fits, by the size asked
\* for; a pass that does not grow creates no buffer and moves no allocated range
GrowthOnMiss(freeList, size, capacity, newCapacity, buffer, newBuffer,
             allocatedList, newAllocatedList) ==
    LET grew == newBuffer.id # buffer.id
    IN  /\ grew <=> ~Fits(freeList, size)
        /\ grew => newCapacity = capacity + size
        /\ ~grew => /\ newCapacity = capacity
                    /\ buffersCreated' = buffersCreated
                    /\ newAllocatedList = allocatedList

FirstFit(requestedSize, freeList) ==
    IF Fits(freeList, requestedSize)
    THEN (CHOOSE k \in 1..Len(freeList) :
              /\ freeList[k].count >= requestedSize
              /\ \A j \in 1..(k - 1) : freeList[j].count < requestedSize) - 1
    ELSE Sentinel

\* thread t makes a pass of the placement loop it is in at "at"
SearchPass(t, at) == pc[t] = at /\ (pc'[t] # pc[t] \/ call'[t] # call[t])

\* C18: findPlacement is a bounds-safe first fit.  Every call of findPlacement
\* returns the lowest index i with requestedSize <= freeList[i].count, or the
\* "not found" sentinel when there is none (always so on an empty list), and
\* it reads no element outside the list (so it cannot fault).
C18_FirstFit ==
    [][\A t \in Threads :
          /\ SearchPass(t, "vertexLocation") =>
                /\ pc'[t] # "crashed"
                /\ call'[t].vertexAllocation = FirstFit(call[t].vertexBytes, vertexFreeList)
          /\ SearchPass(t, "indexLocation") =>
                /\ pc'[t] # "crashed"
                /\ call'[t].indexAllocation = FirstFit(call[t].indexBytes, indexFreeList)]_vars

GrowthOrder == <<"CreateBuffer", "Begin", "End", "Commit", "Signal", "Wait">>

\* log restricted to the events of GrowthOrder
Ordered(log) ==
    LET InOrder(e) == \E k \in 1..Len(GrowthOrder) : GrowthOrder[k] = e
    IN  SelectSeq(log, InOrder)

\* every copy command of log is recorded between Begin and End
CopiesInside(log) ==
    \A k \in 1..Len(log) :
        log[k] = "Copy" =>
            /\ \E j \in 1..(k - 1) : log[j] = "Begin"
            /\ \A j \in 1..(k - 1) : log[j] # "End"

\* C20: Growth is synchronous and ordered.  Within a growth the device events
\* occur in the order: create the new buffer, Begin, record the copy commands,
\* End, Commit with the fence, fence Wait; the wait returns only after the
\* fence was signalled, and until then the call that grows holds the lock and
\* has neither gone on to its uploads nor returned.
C20_GrowthSynchronous ==
    /\ \E n \in 0..Len(GrowthOrder) : Ordered(gpuLog) = SubSeq(GrowthOrder, 1, n)
    /\ CopiesInside(gpuLog)
    /\ Len(Ordered(gpuLog)) \in {4, 5} =>
          \E t \in Threads : pc[t] = "fenceWait"
    /\ \A t \in Threads :
          pc[t] = "fenceWait" =>
              /\ allocationLock = t
              /\ result[t] = NoResult
              /\ Len(Ordered(gpuLog)) \in {4, 5}

\* a vertex growth has returned, its wait over, and the call has gone on to
\* place its index data while another call waits for the lock
C20_Witness ==
    \E t, u \in Threads :
        /\ t # u
        /\ pc[t] = "indexLocation" /\ pc[u] = "lock"
        /\ Ordered(gpuLog) = GrowthOrder

\* how often buffer id is in the deferred-destruction queue
Enqueued(queue, id) == Cardinality({ k \in 1..Len(queue) : queue[k] = id })

\* the step, if it replaces buffer by newBuffer, hands buffer to the queue
\* once, and the buffer installed after the step is not in the queue
Retired(buffer, newBuffer) ==
    /\ newBuffer.id # buffer.id /\ buffer.id # NoBuffer.id =>
          /\ Enqueued(gcBuffers, buffer.id) = 0
          /\ Enqueued(gcBuffers', buffer.id) = 1
    /\ newBuffer.id # NoBuffer.id => Enqueued(gcBuffers', newBuffer.id) = 0

\* C21: Replaced buffers are retired, not dropped.  Every growth of the vertex
\* buffer and of the index buffer hands the buffer it replaces to the
\* deferred-destruction queue exactly once, and the shared buffer that is
\* installed is never in that queue.
C21_ReplacedBuffersRetired ==
    [][/\ Retired(sharedVertexBuffer, sharedVertexBuffer')
       /\ Retired(sharedIndexBuffer, sharedIndexBuffer')]_vars

\* the vertex half of C21
C21_VertexRetired == [][Retired(sharedVertexBuffer, sharedVertexBuffer')]_vars

\* the lock is held only by a thread inside its call, and a step that ends a
\* call releases it
ReleasedOnExit ==
    /\ \A t \in Threads : allocationLock = t => PastLock(t) \/ pc[t] = "crashed"
    /\ allocationLock \in Threads \cup {0}

C22_ReleasedOnExit == ReleasedOnExit

====
